---- MODULE Spec2Model ----
(***************************************************************************)
(* Model of the buddy-paws cloud functions: the hazard-detection           *)
(* pipelines (the Go DetectHazards function with safeguardSeverity, and    *)
(* the TypeScript detectHazards function with HazardResponseProcessor).    *)
(*                                                                         *)
(* Program strings are sequences of one-character strings, so that prefix  *)
(* tests, case conversion, the severity regular expression, trim and       *)
(* whitespace collapsing are computed character by character as the code   *)
(* computes them.                                                          *)
(***************************************************************************)
EXTENDS Integers, Sequences, FiniteSets, TLC

VARIABLES
  fn,        \* pure-function harness: which function is under evaluation
  fnArg,     \* pure-function harness: the argument
  fnRet,     \* pure-function harness: the returned value
  fnDone,    \* pure-function harness: whether the function has been applied
  endpoint,  \* which cloud function the request in flight was sent to
  pc,        \* position of the request in its handler
  request,   \* the HTTP request in flight
  local,     \* the handler's local variables that survive an await
  visionCalls, \* calls made to the vision model for the request in flight
  gatewayCalls, \* the calls made to the Google Maps services, in order
  response   \* the HTTP responses written for the request in flight

fnVars == <<fn, fnArg, fnRet, fnDone>>
svcVars == <<endpoint, pc, request, local, visionCalls, gatewayCalls, response>>
vars ==
  <<fn, fnArg, fnRet, fnDone,
    endpoint, pc, request, local, visionCalls, gatewayCalls, response>>

\* The value of a variable or field that holds nothing yet.
NoValue == [none |-> TRUE]

-----------------------------------------------------------------------------
(* Bounds *)

\* Longest text, in chunks, handed to a pure function.
MaxChunks == 3
\* Longest vision-model output, in chunks, in the request pipelines.
MaxModelChunks == 2
\* Longest image string, in chunks, handed to processBase64Image alone.
MaxImageChunks == 4
\* Most candidates a place search returns.
MaxPlaces == 6

-----------------------------------------------------------------------------
(* Characters and strings *)

LowerLetters == <<"a","b","c","d","e","f","g","h","i","j","k","l","m",
                  "n","o","p","q","r","s","t","u","v","w","x","y","z">>
UpperLetters == <<"A","B","C","D","E","F","G","H","I","J","K","L","M",
                  "N","O","P","Q","R","S","T","U","V","W","X","Y","Z">>

ToUpperChar(c) ==
  IF \E i \in 1..26 : LowerLetters[i] = c
  THEN UpperLetters[CHOOSE i \in 1..26 : LowerLetters[i] = c]
  ELSE c

\* strings.ToUpper / String.prototype.toUpperCase
ToUpper(s) == [i \in 1..Len(s) |-> ToUpperChar(s[i])]

\* strings.HasPrefix
HasPrefix(s, p) == Len(s) >= Len(p) /\ SubSeq(s, 1, Len(p)) = p

\* The characters JavaScript's \s and trim() treat as white space.
IsSpace(c) == c \in {" ", "\t", "\n"}

sHIGH == <<"H","I","G","H">>
sMEDIUM == <<"M","E","D","I","U","M">>
sMED == <<"M","E","D">>
sLOW == <<"L","O","W">>
sSTOP == <<"S","T","O","P">>
sCAUTION == <<"C","A","U","T","I","O","N">>
sSLOW == <<"S","L","O","W">>
sEmpty == << >>

\* The pieces texts are built from (ASCII only).
Chunks ==
  { sSTOP, <<"S","t","o","p">>, sCAUTION, <<"S","l","o","w">>, <<"G","o">>,
    <<" ">>, <<"\n">>, <<".">>, <<",">>,
    sHIGH, <<"m","e","d">>, sLOW, sMEDIUM }

RECURSIVE Flatten(_)
Flatten(ss) == IF ss = << >> THEN << >> ELSE Head(ss) \o Flatten(Tail(ss))

\* Every text of at most n of the given chunks.
TextsOf(chunks, n) == { Flatten(cs) : cs \in UNION { [1..k -> chunks] : k \in 0..n } }

\* The pieces the output of the vision model is built from in the request
\* pipelines.
ModelChunks == Chunks \ { <<"\n">>, <<",">>, sMEDIUM }

\* The example texts of the documentation and of the prompts.
sExampleStopHigh ==
  <<"S","T","O","P","."," ","C","o","n","s","t","r","u","c","t","i","o","n",
    " ","b","a","r","r","i","e","r","s"," ","a","h","e","a","d","."," ","H",
    "I","G","H">>

sExampleStopHighSpeech ==
  <<"S","T","O","P","."," ","C","o","n","s","t","r","u","c","t","i","o","n",
    " ","b","a","r","r","i","e","r","s"," ","a","h","e","a","d",".">>

sExampleWalkStraight ==
  <<"W","a","l","k"," ","s","t","r","a","i","g","h","t",","," ","c","l","e",
    "a","r"," ","p","a","t","h",".">>

sExampleSlowWet ==
  <<"S","L","O","W",","," ","W","e","t"," ","s","u","r","f","a","c","e",".",
    " ","M","o","v","e"," ","s","l","i","g","h","t","l","y"," ","l","e","f",
    "t",".">>

sExamplePrompt ==
  <<"S","T","O","P","."," ","C","o","n","s","t","r","u","c","t","i","o","n",
    " ","b","a","r","r","i","e","r","s"," ","2"," ","s","t","e","p","s"," ",
    "a","h","e","a","d","."," ","P","e","d","e","s","t","r","i","a","n"," ",
    "s","i","g","n"," ","l","e","f","t","."," ","W","A","L","K"," ","S","I",
    "D","E","W","A","Y","S"," ","L","E","F","T","."," ","M","E","D",".">>

SampleTexts == { sExampleStopHigh, sExampleWalkStraight, sExampleSlowWet, sExamplePrompt }

Texts == TextsOf(Chunks, MaxChunks) \cup SampleTexts

-----------------------------------------------------------------------------
(* Go: safeguardSeverity *)

\* A variant that inspects the text before it trusts the declared severity.
safeguardSeverityTextFirst(detection) ==
  LET safeDir == ToUpper(detection.SafeDirection) IN
  IF HasPrefix(safeDir, sSTOP) THEN sHIGH
  ELSE IF HasPrefix(safeDir, sCAUTION) \/ HasPrefix(safeDir, sSLOW) THEN sMEDIUM
  ELSE IF detection.Severity = sHIGH THEN sHIGH
  ELSE IF detection.Severity = sMEDIUM THEN sMEDIUM
  ELSE sLOW

\* A variant that forgets to upper-case the text before the prefix tests.
safeguardSeverityNoUpper(detection) ==
  LET safeDir == detection.SafeDirection IN
  IF detection.Severity = sHIGH THEN sHIGH
  ELSE IF detection.Severity = sMEDIUM THEN sMEDIUM
  ELSE IF HasPrefix(safeDir, sSTOP) THEN sHIGH
  ELSE IF HasPrefix(safeDir, sCAUTION) \/ HasPrefix(safeDir, sSLOW) THEN sMEDIUM
  ELSE sLOW

\* A variant that reports the declared severity and never reads the text.
safeguardSeverityDeclaredOnly(detection) ==
  IF detection.Severity = sHIGH THEN sHIGH
  ELSE IF detection.Severity = sMEDIUM THEN sMEDIUM
  ELSE sLOW

\* A variant that raises the declared severity by one level, and no more,
\* when the text starts with STOP.
safeguardSeverityStepwise(detection) ==
  LET safeDir == ToUpper(detection.SafeDirection) IN
  IF detection.Severity = sHIGH THEN sHIGH
  ELSE IF HasPrefix(safeDir, sSTOP)
       THEN (IF detection.Severity = sMEDIUM THEN sHIGH ELSE sMEDIUM)
  ELSE IF detection.Severity = sMEDIUM THEN sMEDIUM
  ELSE IF HasPrefix(safeDir, sCAUTION) \/ HasPrefix(safeDir, sSLOW) THEN sMEDIUM
  ELSE sLOW

safeguardSeverity(detection) ==
  IF detection.Severity = sHIGH THEN sHIGH
  ELSE IF detection.Severity = sMEDIUM THEN sMEDIUM
  ELSE LET safeDir == ToUpper(detection.SafeDirection) IN
       IF HasPrefix(safeDir, sSTOP) THEN sHIGH
       ELSE IF HasPrefix(safeDir, sCAUTION) \/ HasPrefix(safeDir, sSLOW) THEN sMEDIUM
       ELSE sLOW

\* The severities a model may declare: the three of the prompt, none, and
\* two strings the prompt does not list.
DeclaredSeverities == { sHIGH, sMEDIUM, sLOW, sEmpty, sMED, <<"h","i","g","h">> }

Detections == [Severity : DeclaredSeverities, SafeDirection : Texts]

-----------------------------------------------------------------------------
(* TypeScript: HazardResponseProcessor.processHazardAnalysis *)

\* The alternatives of the group (HIGH|MED|LOW), in the order the regular
\* expression tries them.
SeverityTokens == <<sHIGH, sMED, sLOW>>

\* The class [.\s] of the regular expression.
IsDotOrSpace(c) == c = "." \/ IsSpace(c)

\* The i flag: two characters match when their upper-case forms are equal.
MatchesIgnoreCase(s, word) ==
  /\ Len(s) = Len(word)
  /\ \A i \in 1..Len(word) : ToUpperChar(s[i]) = ToUpperChar(word[i])

\* Where the greedy [.\s]* stops when it starts at position i of s.
RECURSIVE DotSpaceRunEnd(_, _)
DotSpaceRunEnd(s, i) ==
  IF i <= Len(s) /\ IsDotOrSpace(s[i]) THEN DotSpaceRunEnd(s, i + 1) ELSE i

\* Whether /(HIGH|MED|LOW)[.\s]*$/i matches s starting at position i with
\* alternative k. The run [.\s]* can only give characters back, so $ is
\* reached exactly when the greedy run ends at the end of s.
MatchesAt(s, i, k) ==
  LET tok == SeverityTokens[k] IN
  /\ i + Len(tok) - 1 <= Len(s)
  /\ MatchesIgnoreCase(SubSeq(s, i, i + Len(tok) - 1), tok)
  /\ DotSpaceRunEnd(s, i + Len(tok)) = Len(s) + 1

NoMatch == [found |-> FALSE]

\* String.prototype.match with the severity regex: the leftmost position
\* that matches, and at it the first alternative that matches.
RegexMatch(s) ==
  LET starts == { i \in 1..Len(s) : \E k \in 1..3 : MatchesAt(s, i, k) } IN
  IF starts = {} THEN NoMatch
  ELSE LET i == CHOOSE x \in starts : \A y \in starts : x <= y
           k == CHOOSE x \in 1..3 :
                  MatchesAt(s, i, x) /\ \A y \in 1..3 : MatchesAt(s, i, y) => x <= y
       IN [found |-> TRUE, index |-> i,
           group1 |-> SubSeq(s, i, i + Len(SeverityTokens[k]) - 1),
           last |-> Len(s)]

\* analysis.replace(regex, ''): the first match is cut out.
RegexRemove(s) ==
  LET m == RegexMatch(s) IN
  IF m.found THEN SubSeq(s, 1, m.index - 1) \o SubSeq(s, m.last + 1, Len(s))
  ELSE s

RECURSIVE TrimStart(_)
TrimStart(s) ==
  IF s # << >> /\ IsSpace(Head(s)) THEN TrimStart(Tail(s)) ELSE s

RECURSIVE TrimEnd(_)
TrimEnd(s) ==
  IF s # << >> /\ IsSpace(s[Len(s)]) THEN TrimEnd(SubSeq(s, 1, Len(s) - 1)) ELSE s

\* String.prototype.trim
Trim(s) == TrimEnd(TrimStart(s))

\* replace(/\s+/g, ' '): every maximal run of white space becomes one space.
RECURSIVE CollapseSpaces(_)
CollapseSpaces(s) ==
  IF s = << >> THEN << >>
  ELSE IF IsSpace(Head(s))
       THEN <<" ">> \o CollapseSpaces(TrimStart(s))
       ELSE <<Head(s)>> \o CollapseSpaces(Tail(s))

sUnableToAnalyze ==
  <<"U","n","a","b","l","e"," ","t","o"," ","a","n","a","l","y","z","e"," ",
    "i","m","a","g","e"," ","p","r","o","p","e","r","l","y">>

\* A variant whose default severity, without a token, is LOW.
processHazardAnalysisDefaultLow(analysis) ==
  LET severityMatch == RegexMatch(analysis)
      severity == IF severityMatch.found THEN ToUpper(severityMatch.group1) ELSE sLOW
      speechText == CollapseSpaces(Trim(RegexRemove(analysis)))
  IN IF speechText = << >>
     THEN [speechText |-> sUnableToAnalyze, severity |-> sMED]
     ELSE [speechText |-> speechText, severity |-> severity]

\* A variant whose empty-text fallback keeps the token's severity.
processHazardAnalysisKeepSeverity(analysis) ==
  LET severityMatch == RegexMatch(analysis)
      severity == IF severityMatch.found THEN ToUpper(severityMatch.group1) ELSE sMED
      speechText == CollapseSpaces(Trim(RegexRemove(analysis)))
  IN IF speechText = << >>
     THEN [speechText |-> sUnableToAnalyze, severity |-> severity]
     ELSE [speechText |-> speechText, severity |-> severity]

\* A variant that trims but does not collapse the white space inside.
processHazardAnalysisNoCollapse(analysis) ==
  LET severityMatch == RegexMatch(analysis)
      severity == IF severityMatch.found THEN ToUpper(severityMatch.group1) ELSE sMED
      speechText == Trim(RegexRemove(analysis))
  IN IF speechText = << >>
     THEN [speechText |-> sUnableToAnalyze, severity |-> sMED]
     ELSE [speechText |-> speechText, severity |-> severity]

\* A variant that reports the token as the model wrote it, not upper-cased.
processHazardAnalysisNoUpper(analysis) ==
  LET severityMatch == RegexMatch(analysis)
      severity == IF severityMatch.found THEN severityMatch.group1 ELSE sMED
      speechText == CollapseSpaces(Trim(RegexRemove(analysis)))
  IN IF speechText = << >>
     THEN [speechText |-> sUnableToAnalyze, severity |-> sMED]
     ELSE [speechText |-> speechText, severity |-> severity]

\* None of match, toUpperCase, replace and trim throws on a string, so the
\* catch branch of the source is not reachable from a string argument.
processHazardAnalysis(analysis) ==
  LET severityMatch == RegexMatch(analysis)
      severity == IF severityMatch.found THEN ToUpper(severityMatch.group1) ELSE sMED
      speechText == CollapseSpaces(Trim(RegexRemove(analysis)))
  IN IF speechText = << >>
     THEN [speechText |-> sUnableToAnalyze, severity |-> sMED]
     ELSE [speechText |-> speechText, severity |-> severity]

-----------------------------------------------------------------------------
(* Go: processBase64Image *)

\* strings.Split on a one-character separator.
RECURSIVE Split(_, _)
Split(s, sep) ==
  IF \A i \in 1..Len(s) : s[i] # sep THEN <<s>>
  ELSE LET i == CHOOSE x \in 1..Len(s) :
                  s[x] = sep /\ \A y \in 1..(x - 1) : s[y] # sep
       IN <<SubSeq(s, 1, i - 1)>> \o Split(SubSeq(s, i + 1, Len(s)), sep)

\* strings.TrimPrefix
TrimPrefix(s, p) == IF HasPrefix(s, p) THEN SubSeq(s, Len(p) + 1, Len(s)) ELSE s

Digits == {"0","1","2","3","4","5","6","7","8","9"}

Base64Alphabet ==
  { LowerLetters[i] : i \in 1..26 } \cup { UpperLetters[i] : i \in 1..26 }
    \cup Digits \cup {"+", "/"}

IsLineBreak(c) == c \in {"\r", "\n"}
NotLineBreak(c) == ~IsLineBreak(c)

\* An image of several megabytes is written with one element that stands for
\* a run of RunLength characters "A": 1398101 quanta of four characters,
\* which decode to 4 MiB less one byte.
RunLength == 4 * 1398101
sRunOfA == "A x 5592404"

\* The number of characters an element of a string stands for.
Width(c) == IF c = sRunOfA THEN RunLength ELSE 1

\* The length of a string in characters.
RECURSIVE CharCount(_)
CharCount(s) == IF s = << >> THEN 0 ELSE Width(Head(s)) + CharCount(Tail(s))

IsBase64Char(c) == c \in Base64Alphabet \/ c = sRunOfA

\* base64.StdEncoding.DecodeString: line breaks are skipped, the rest must be
\* whole quanta of four characters of the alphabet, the last one padded with
\* "=" or "==". The decoded bytes are represented by their number.
Base64Decode(s) ==
  LET c == SelectSeq(s, NotLineBreak)
      n == CharCount(c)
      m == Len(c)
      pads == Cardinality({ i \in 1..m : c[i] = "=" })
      ok == /\ n % 4 = 0
            /\ \A i \in 1..m :
                 \/ IsBase64Char(c[i])
                 \/ /\ c[i] = "="
                    /\ i >= m - 1
                    /\ c[m] = "="
  IN IF ok THEN [err |-> FALSE, size |-> 3 * (n \div 4) - pads]
     ELSE [err |-> TRUE]

sDataImagePrefix == <<"d","a","t","a",":","i","m","a","g","e","/">>
sJpeg == <<"j","p","e","g">>

\* A variant that accepts any media type before the semicolon.
processBase64ImageAnyMediaType(base64Image) ==
  LET parts == Split(base64Image, ",") IN
  IF Len(parts) = 2
  THEN LET metaParts == Split(parts[1], ";") IN
       IF Len(metaParts) # 2
       THEN [err |-> "invalid image format in data URI"]
       ELSE LET decoded == Base64Decode(parts[2]) IN
            IF decoded.err THEN [err |-> "failed to decode base64 data"]
            ELSE [err |-> "none", size |-> decoded.size,
                  format |-> TrimPrefix(metaParts[1], sDataImagePrefix)]
  ELSE LET decoded == Base64Decode(base64Image) IN
       IF decoded.err THEN [err |-> "failed to decode base64 data"]
       ELSE [err |-> "none", size |-> decoded.size, format |-> sJpeg]

processBase64Image(base64Image) ==
  LET parts == Split(base64Image, ",") IN
  IF Len(parts) = 2
  THEN LET metaParts == Split(parts[1], ";") IN
       IF Len(metaParts) # 2 \/ ~HasPrefix(metaParts[1], sDataImagePrefix)
       THEN [err |-> "invalid image format in data URI"]
       ELSE LET decoded == Base64Decode(parts[2]) IN
            IF decoded.err THEN [err |-> "failed to decode base64 data"]
            ELSE [err |-> "none", size |-> decoded.size,
                  format |-> TrimPrefix(metaParts[1], sDataImagePrefix)]
  ELSE LET decoded == Base64Decode(base64Image) IN
       IF decoded.err THEN [err |-> "failed to decode base64 data"]
       ELSE [err |-> "none", size |-> decoded.size, format |-> sJpeg]

imgBare == <<"Q","U","J","D">>
imgDataUri ==
  <<"d","a","t","a",":","i","m","a","g","e","/","p","n","g",";",
    "b","a","s","e","6","4",",","Q","U","J","D">>
imgNoSemicolon ==
  <<"d","a","t","a",":","i","m","a","g","e","/","p","n","g",",","Q","U","J","D">>
imgNotImage ==
  <<"d","a","t","a",":","t","e","x","t","/","p","l","a","i","n",";",
    "b","a","s","e","6","4",",","Q","U","J","D">>
imgBadBase64 == <<"Q","U","!","D">>

\* An image of exactly 4 MiB (4194304 bytes) and one of a byte more.
imgExactly4MiB == <<sRunOfA, "A", "A", "=", "=">>
imgOver4MiB == <<sRunOfA, "A", "A", "A", "=">>

\* The image strings a client may send ("" included).
Images ==
  { sEmpty, imgBare, imgDataUri, imgNoSemicolon, imgNotImage, imgBadBase64,
    imgExactly4MiB, imgOver4MiB }

\* The pieces the image strings handed to processBase64Image alone are
\* built from.
sDataImagePng == <<"d","a","t","a",":","i","m","a","g","e","/","p","n","g">>
sDataTextPlain == <<"d","a","t","a",":","t","e","x","t","/","p","l","a","i","n">>
sSemicolonBase64 == <<";","b","a","s","e","6","4">>
sPng == <<"p","n","g">>

ImageChunks ==
  { sDataImagePng, sDataTextPlain, sSemicolonBase64, <<";">>, <<",">>,
    <<"Q","U","J","D">>, <<"Q","Q","=","=">>, <<"=">>, <<"!">>, <<sRunOfA>> }

ImageStrings == TextsOf(ImageChunks, MaxImageChunks)

-----------------------------------------------------------------------------
(* HTTP requests and responses *)

Methods == {"POST", "GET", "OPTIONS"}

\* The x-api-key header: none, the configured key, another key.
ApiKeys == {"", "good", "bad"}

\* A request body: none (or not JSON), a JSON object without the image
\* field, a JSON object with an image string.
Bodies ==
  {[kind |-> "none"], [kind |-> "object"]}
    \cup { [kind |-> "object", image |-> img] : img \in Images }

HasImage(body) == body.kind = "object" /\ "image" \in DOMAIN body

Requests == [method : Methods, apiKey : ApiKeys, body : Bodies]

\* res.status(code).json(body) / respondWithJSON after the responses in
\* prior: one more response written. Express refuses (throws on) a response
\* after the first, so only the first is sent to the client.
Written(prior, code, body) ==
  Append(prior, [status |-> code, body |-> body, sent |-> prior = << >>])

Respond(code, body) == Written(response, code, body)

-----------------------------------------------------------------------------
(* Go: DetectHazards *)

JsonAbsent == [type |-> "absent"]
JsonNumber == [type |-> "number"]
JsonString(v) == [type |-> "string", value |-> v]

\* The texts a vision model may put in safe_direction.
DirectionTexts == TextsOf(ModelChunks, MaxModelChunks) \cup SampleTexts

\* The text the model returns, by what json.Unmarshal makes of it: not JSON,
\* a JSON array, the JSON null, or a JSON object whose fields may be absent,
\* strings, or of another type.
JsonDocs ==
  {[shape |-> "invalid"], [shape |-> "array"], [shape |-> "null"]}
    \cup [shape : {"object"},
          hazards : {[type |-> "array"]},
          severity : {JsonAbsent, JsonNumber}
                       \cup { JsonString(v) : v \in DeclaredSeverities },
          safe_direction : {JsonAbsent, JsonNumber}
                             \cup { JsonString(v) : v \in DirectionTexts }]
    \cup {[shape |-> "object", hazards |-> JsonAbsent,
           severity |-> JsonAbsent, safe_direction |-> JsonAbsent],
          [shape |-> "object", hazards |-> JsonString(sEmpty),
           severity |-> JsonString(sHIGH), safe_direction |-> JsonString(sSTOP)]}

\* What GenerateContent gives back.
GoModelResults ==
  {[kind |-> "error"], [kind |-> "noCandidates"], [kind |-> "noParts"],
   [kind |-> "blobPart"]}
    \cup { [kind |-> "text", json |-> d] : d \in JsonDocs }

StringField(v) == IF v.type = "string" THEN v.value ELSE sEmpty

\* json.Unmarshal into HazardDetection: a field that is absent keeps its zero
\* value, a field of the wrong type is an error, null leaves the struct as is.
Unmarshal(doc) ==
  IF doc.shape \in {"invalid", "array"} THEN [err |-> TRUE]
  ELSE IF doc.shape = "null"
  THEN [err |-> FALSE, detection |-> [Severity |-> sEmpty, SafeDirection |-> sEmpty]]
  ELSE IF \/ doc.hazards.type \notin {"absent", "array"}
          \/ doc.severity.type \notin {"absent", "string"}
          \/ doc.safe_direction.type \notin {"absent", "string"}
  THEN [err |-> TRUE]
  ELSE [err |-> FALSE,
        detection |-> [Severity |-> StringField(doc.severity),
                       SafeDirection |-> StringField(doc.safe_direction)]]

\* validateAPIKey: nil when the header is present and either no key is
\* configured or the header equals it.
validateAPIKey(apiKey, expectedAPIKey) ==
  IF apiKey = "" THEN "missing API key"
  ELSE IF expectedAPIKey = "" THEN "nil"
  ELSE IF apiKey # expectedAPIKey THEN "invalid API key"
  ELSE "nil"

\* json.NewDecoder(r.Body).Decode(&req): an error without a JSON body, the
\* zero value "" for an absent image field.
DecodeRequest(body) ==
  IF body.kind = "none" THEN [err |-> TRUE]
  ELSE [err |-> FALSE, Image |-> IF HasImage(body) THEN body.image ELSE sEmpty]

GoError(message) == [error |-> message]

Finish(code, body) ==
  /\ response' = Respond(code, body)
  /\ pc' = "done"

\* DetectHazards from its entry to the call of model.GenerateContent.
GoDetectHazardsBegin ==
  /\ pc = "idle"
  /\ \E req \in Requests, expectedAPIKey \in {"", "good"},
        logClientOk \in BOOLEAN, genaiClientOk \in BOOLEAN :
       /\ endpoint' = "goDetectHazards"
       /\ request' = [method |-> req.method, apiKey |-> req.apiKey, body |-> req.body,
                      API_KEY |-> expectedAPIKey]
       /\ IF ~logClientOk
          THEN \* log.Fatalf: the process exits without a response
               /\ pc' = "exited"
               /\ UNCHANGED <<local, visionCalls, response>>
          ELSE IF req.method = "OPTIONS"
          THEN Finish(204, NoValue) /\ UNCHANGED <<local, visionCalls>>
          ELSE IF req.method # "POST"
          THEN Finish(405, GoError("Method not allowed"))
               /\ UNCHANGED <<local, visionCalls>>
          ELSE IF validateAPIKey(req.apiKey, expectedAPIKey) # "nil"
          THEN Finish(401, GoError("Invalid API key")) /\ UNCHANGED <<local, visionCalls>>
          ELSE IF DecodeRequest(req.body).err
          THEN Finish(400, GoError("Invalid request body"))
               /\ UNCHANGED <<local, visionCalls>>
          ELSE LET img == processBase64Image(DecodeRequest(req.body).Image) IN
               IF img.err # "none"
               THEN Finish(400, GoError("Invalid image data")) /\ UNCHANGED <<local, visionCalls>>
               ELSE IF ~genaiClientOk
               THEN Finish(500, GoError("Error creating new client"))
                    /\ UNCHANGED <<local, visionCalls>>
               ELSE /\ local' = [format |-> img.format, imageSize |-> img.size]
                    /\ visionCalls' = visionCalls + 1
                    /\ pc' = "awaitVision"
                    /\ UNCHANGED response
  /\ UNCHANGED <<fnVars, gatewayCalls>>

\* DetectHazards from the return of model.GenerateContent to its end.
GoDetectHazardsResume ==
  /\ pc = "awaitVision"
  /\ endpoint = "goDetectHazards"
  /\ \E resp \in GoModelResults :
       /\ local' = [format |-> local.format, imageSize |-> local.imageSize,
                    modelResult |-> resp]
       /\ IF resp.kind = "error"
          THEN Finish(500, GoError("Error at processing"))
          ELSE IF resp.kind = "noCandidates"
          THEN Finish(500, GoError("No response - candidates"))
          ELSE IF resp.kind = "noParts"
          THEN Finish(500, GoError("No response - parts"))
          ELSE IF resp.kind = "blobPart"
          THEN \* Parts[0].(genai.Text) panics on a part that is not text
               pc' = "panicked" /\ UNCHANGED response
          ELSE LET parsed == Unmarshal(resp.json) IN
               IF parsed.err
               THEN Finish(500, GoError("Error unmarshaling JSON"))
               ELSE Finish(200, [speechText |-> parsed.detection.SafeDirection,
                                 severity |-> safeguardSeverity(parsed.detection)])
  /\ UNCHANGED <<fnVars, endpoint, request, visionCalls, gatewayCalls>>

-----------------------------------------------------------------------------
(* TypeScript: detectHazards, handleDetectHazards, HazardDetectionService *)

MAX_IMAGE_SIZE == 4 * 1024 * 1024

\* Buffer.from(imageData, 'base64').length: the decoder skips characters
\* outside the alphabet, stops at the first "=", and yields three bytes for
\* every four characters.
BufferFromBase64Length(s) ==
  LET stops == { i \in 1..Len(s) : s[i] = "=" }
      upto == IF stops = {} THEN Len(s)
              ELSE (CHOOSE i \in stops : \A j \in stops : i <= j) - 1
      IsDecoded(c) == IsBase64Char(c) \/ c \in {"-", "_"}
      n == CharCount(SelectSeq(SubSeq(s, 1, upto), IsDecoded))
  IN (n * 3) \div 4

\* validateImageData: the message of the error it throws, or "none".
validateImageData(imageData) ==
  IF imageData = sEmpty THEN "Image data is empty"
  ELSE IF BufferFromBase64Length(imageData) > MAX_IMAGE_SIZE
  THEN "Image size exceeds maximum limit"
  ELSE "none"

BlobPart == [inlineData |-> TRUE]
TextPart(t) == [text |-> t]

\* The parts of k units: a text of k chunks, or, for one unit, also an
\* empty text and a part that is not text.
PartsOfSize(k) ==
  { TextPart(Flatten(cs)) : cs \in [1..k -> ModelChunks] }
    \cup (IF k = 1 THEN {TextPart(sEmpty), BlobPart} ELSE {})

RECURSIVE PartListsExact(_)
PartListsExact(n) ==
  IF n = 0 THEN {<< >>}
  ELSE UNION { { <<p>> \o rest : p \in PartsOfSize(k), rest \in PartListsExact(n - k) }
               : k \in 1..n }

\* What generateContent gives back: a rejection, a response without
\* candidates[0].content.parts, or a list of parts.
TsModelResults ==
  {[kind |-> "error"], [kind |-> "invalidFormat"]}
    \cup { [kind |-> "parts", parts |-> ps] :
             ps \in UNION { PartListsExact(n) : n \in 0..MaxModelChunks } }

IsTextPart(part) == "text" \in DOMAIN part

RECURSIVE Join(_, _)
Join(ss, sep) ==
  IF ss = << >> THEN << >>
  ELSE IF Len(ss) = 1 THEN ss[1]
  ELSE ss[1] \o sep \o Join(Tail(ss), sep)

\* parts.filter(part => 'text' in part).map(part => part.text).join(' ')
JoinTextParts(parts) ==
  LET texts == SelectSeq(parts, IsTextPart) IN
  Join([i \in 1..Len(texts) |-> texts[i].text], <<" ">>)

TsError(message) == [error |-> message, timestamp |-> TRUE]
TsErrorDetails(message, details) ==
  [error |-> message, details |-> details, timestamp |-> TRUE]

sHeadersSent == "Cannot set headers after they are sent to the client"
sErrorProcessing == "Error processing image for hazard detection"

\* The responses after res.status(code).json(body) inside the try block of
\* handleDetectHazards: when a response was already sent, json throws, the
\* catch block tries to answer 500, and that throws as well.
WrittenInTry(prior, code, body) ==
  IF prior = << >> THEN Written(prior, code, body)
  ELSE Written(Written(prior, code, body), 500,
               TsErrorDetails(sErrorProcessing, sHeadersSent))

\* The responses after an error thrown inside the try block: the catch block
\* answers 500 with the error's message.
WrittenInCatch(prior, details) ==
  Written(prior, 500, TsErrorDetails(sErrorProcessing, details))

\* validateApiKey(validApiKey)(req, res): the responses after it ran. It is
\* an async function: its caller receives a promise, which is never falsy,
\* so the caller goes on whatever the key is.
validateApiKey(providedApiKey, validApiKey, prior) ==
  IF providedApiKey = "" \/ providedApiKey # validApiKey
  THEN Written(prior, 401, [error |-> "Invalid API key"])
  ELSE prior

\* The body of the 405 response.
MethodNotAllowed == [error |-> "Method not allowed", allowedMethods |-> <<"POST">>]

\* detectHazards (with validateCors, validateApiKey and handleDetectHazards)
\* from its entry to the await of model.generateContent.
TsDetectHazardsBegin ==
  /\ pc = "idle"
  /\ \E req \in Requests :
       LET API_KEY == "good"
           afterKey == validateApiKey(req.apiKey, API_KEY, response)
       IN
       /\ endpoint' = "tsDetectHazards"
       /\ request' = req
       /\ IF req.method = "OPTIONS"
          THEN \* validateCors answers the preflight
               /\ response' = Respond(204, NoValue)
               /\ pc' = "done"
               /\ UNCHANGED <<local, visionCalls>>
          ELSE IF req.method # "POST"
          THEN /\ response' = Written(afterKey, 405, MethodNotAllowed)
               /\ pc' = "done"
               /\ UNCHANGED <<local, visionCalls>>
          ELSE IF req.body.kind = "none"
          THEN /\ response' = WrittenInTry(afterKey, 400, TsError("Missing request body"))
               /\ pc' = "done"
               /\ UNCHANGED <<local, visionCalls>>
          ELSE IF ~HasImage(req.body) \/ req.body.image = sEmpty
          THEN /\ response' =
                    WrittenInTry(afterKey, 400, TsError("Missing image data in request body"))
               /\ pc' = "done"
               /\ UNCHANGED <<local, visionCalls>>
          ELSE IF validateImageData(req.body.image) # "none"
          THEN /\ response' = WrittenInCatch(afterKey, validateImageData(req.body.image))
               /\ pc' = "done"
               /\ UNCHANGED <<local, visionCalls>>
          ELSE /\ response' = afterKey
               /\ local' = [imageData |-> req.body.image]
               /\ visionCalls' = visionCalls + 1
               /\ pc' = "awaitVision"
  /\ UNCHANGED <<fnVars, gatewayCalls>>

\* detectHazardsInImage and handleDetectHazards from the return of
\* model.generateContent to the end of the request.
TsDetectHazardsResume ==
  /\ pc = "awaitVision"
  /\ endpoint = "tsDetectHazards"
  /\ \E resp \in TsModelResults :
       /\ pc' = "done"
       /\ IF resp.kind = "error"
          THEN /\ response' = WrittenInCatch(response, "Vertex AI error")
               /\ local' = [imageData |-> local.imageData, modelResult |-> resp]
          ELSE IF resp.kind = "invalidFormat"
          THEN /\ response' = WrittenInCatch(response, "Invalid response format from Vertex AI")
               /\ local' = [imageData |-> local.imageData, modelResult |-> resp]
          ELSE LET analysisText == JoinTextParts(resp.parts) IN
               /\ local' = [imageData |-> local.imageData, modelResult |-> resp,
                            analysisText |-> analysisText]
               /\ IF analysisText = sEmpty
                  THEN response' =
                         WrittenInTry(response, 500, TsError("No analysis result from Vertex AI"))
                  ELSE response' =
                         WrittenInTry(response, 200, processHazardAnalysis(analysisText))
  /\ UNCHANGED <<fnVars, endpoint, request, visionCalls, gatewayCalls>>

-----------------------------------------------------------------------------
(* TypeScript: searchPlaces, handleSearchPlaces, SearchPlacesService *)

\* The value of a property that is not there.
Prop(obj, name) == IF name \in DOMAIN obj THEN obj[name] ELSE NoValue

\* An error message is the sequence of the parts its template literal puts
\* together.
sSearchPlacesError == "Error searching places"
sSearchPlacesApiError == "Search Places API error: "
sReadingLength == <<"Cannot read properties of undefined (reading 'length')">>
sReadingElements == <<"Cannot read properties of undefined (reading 'elements')">>
sReadingDistance == <<"Cannot read properties of undefined (reading 'distance')">>

\* res.status(code).json(body) inside the try block of a handler whose catch
\* block answers 500 with the given error text.
WrittenInTryOf(prior, code, body, errorText) ==
  IF prior = << >> THEN Written(prior, code, body)
  ELSE Written(Written(prior, code, body), 500,
               TsErrorDetails(errorText, <<sHeadersSent>>))

\* The responses after an error thrown inside the try block of that handler.
WrittenInCatchOf(prior, errorText, details) ==
  Written(prior, 500, TsErrorDetails(errorText, details))

\* The coordinates a caller may be at.
CallerCoordinates ==
  { [latitude |-> 13, longitude |-> 100], [latitude |-> 14, longitude |-> 101] }

\* A request body: none, a JSON object without the fields, one with an empty
\* textQuery, one with both fields.
SearchBodies ==
  {[kind |-> "none"], [kind |-> "object"]}
    \cup [kind : {"object"}, textQuery : {"cafe"}, currentCoordinates : CallerCoordinates]
    \cup {[kind |-> "object", textQuery |-> "",
           currentCoordinates |-> [latitude |-> 13, longitude |-> 100]]}

SearchRequests == [method : Methods, apiKey : ApiKeys, body : SearchBodies]

\* What a failed axios call throws: an error without a response, or with a
\* response whose data may carry a message.
AxiosErrors ==
  { [kind |-> "axiosError", message |-> "Network Error", response |-> NoValue],
    [kind |-> "axiosError", message |-> "Request failed with status code 403",
     response |-> [data |-> [message |-> "API key not valid"]]],
    [kind |-> "axiosError", message |-> "Request failed with status code 400",
     response |-> [data |-> [message |-> ""]]],
    [kind |-> "axiosError", message |-> "Request failed with status code 500",
     response |-> [data |-> [error |-> "backend"]]] }

\* error.response?.data?.message || error.message, after the prefix.
UpstreamErrorMessageTransportOnly(prefix, error) == <<prefix, error.message>>

UpstreamErrorMessage(prefix, error) ==
  IF /\ error.response # NoValue
     /\ "message" \in DOMAIN error.response.data
     /\ error.response.data.message # ""
  THEN <<prefix, error.response.data.message>>
  ELSE <<prefix, error.message>>

\* The i-th candidate of a place list in which s coordinates alternate: with
\* s = 1 all candidates are at one spot, with s = 2 every other one is.
PlaceAt(i, s) ==
  [displayName |-> i,
   location |-> [latitude |-> 13 + ((i - 1) % s), longitude |-> 100]]

PlaceLists ==
  { [i \in 1..n |-> PlaceAt(i, s)] : n \in 0..MaxPlaces, s \in {1, 2, MaxPlaces} }

\* What the places:searchText call gives back: a failure, data without a
\* places field (nothing was found), or data with a list of places.
PlacesResults ==
  AxiosErrors
    \cup {[kind |-> "ok", data |-> [contextualContents |-> << >>]]}
    \cup { [kind |-> "ok", data |-> [places |-> ps]] : ps \in PlaceLists }

\* The j-th element of a distance-matrix row: with a route it has a distance
\* and a duration, without one only a status.
ElementAt(j, hasRoute) ==
  IF hasRoute
  THEN [status |-> "OK", distance |-> [value |-> 100 * j], duration |-> [value |-> 60 * j]]
  ELSE [status |-> "ZERO_RESULTS"]

\* The element lists of up to k + 1 elements.
ElementLists(k) ==
  UNION { { [j \in 1..m |-> ElementAt(j, routes[j])] : routes \in [1..m -> BOOLEAN] }
          : m \in 0..(k + 1) }

\* What the distance-matrix call gives back for k destinations: a failure,
\* data without rows (the request was denied), or one row of elements, which
\* may be fewer or more than the destinations.
DistanceResults(k) ==
  AxiosErrors
    \cup {[kind |-> "ok", data |-> [rows |-> << >>]]}
    \cup { [kind |-> "ok", data |-> [rows |-> <<[elements |-> es]>>]] : es \in ElementLists(k) }

\* A variant that sends every candidate to the distance matrix.
TruncatePlacesNever(places) == places

\* if (places.length > 4) places = places.slice(0, 4)
TruncatePlaces(places) ==
  IF Len(places) > 4 THEN SubSeq(places, 1, 4) ELSE places

\* places.map(place => ({lat: place.location.latitude, lng: place.location.longitude}))
Destinations(places) ==
  [i \in 1..Len(places) |->
     [lat |-> places[i].location.latitude, lng |-> places[i].location.longitude]]

\* The axios.post to places:searchText.
PlacesCall(textQuery, currentCoordinates) ==
  [gateway |-> "places",
   textQuery |-> textQuery,
   center |-> [latitude |-> currentCoordinates.latitude,
               longitude |-> currentCoordinates.longitude],
   radius |-> 10000,
   rankPreference |-> "DISTANCE"]

\* The axios.get to the distance matrix. The parameter origins, "lat,lng",
\* is written as the pair of its numbers, and destinations, such pairs
\* joined with "|", as the list of the pairs.
DistanceCall(currentCoordinates, destinations) ==
  [gateway |-> "distance",
   origins |-> <<currentCoordinates.latitude, currentCoordinates.longitude>>,
   destinations |-> [i \in 1..Len(destinations) |->
                       <<destinations[i].lat, destinations[i].lng>>],
   mode |-> "walking"]

\* A variant that looks a candidate's element up by the candidate's
\* coordinates: the element of the first destination at the same spot.
MergeDistancesByCoordinates(places, elements) ==
  [index \in 1..Len(places) |->
     LET first == CHOOSE j \in 1..Len(places) :
                    /\ places[j].location = places[index].location
                    /\ \A h \in 1..(j - 1) : places[h].location # places[index].location
     IN [f \in DOMAIN places[index] \cup {"distance", "duration"} |->
           IF f \in {"distance", "duration"} THEN Prop(elements[first], f)
           ELSE places[index][f]]]

\* places.map((place, index) => ({...place,
\*   distance: elements[index].distance, duration: elements[index].duration}))
\* for places that all have an element.
MergeDistances(places, elements) ==
  [index \in 1..Len(places) |->
     [f \in DOMAIN places[index] \cup {"distance", "duration"} |->
        IF f \in {"distance", "duration"} THEN Prop(elements[index], f)
        ELSE places[index][f]]]

\* A variant that accepts an empty textQuery.
HasSearchFieldsAnyText(body) ==
  /\ body.kind = "object"
  /\ "textQuery" \in DOMAIN body
  /\ "currentCoordinates" \in DOMAIN body

HasSearchFields(body) ==
  /\ body.kind = "object"
  /\ "textQuery" \in DOMAIN body
  /\ body.textQuery # ""
  /\ "currentCoordinates" \in DOMAIN body

\* searchPlaces (with validateCors, validateApiKey and handleSearchPlaces)
\* from its entry to the await of the places:searchText call.
SearchPlacesBegin ==
  /\ pc = "idle"
  /\ \E req \in SearchRequests :
       LET API_KEY == "good"
           afterKey == validateApiKey(req.apiKey, API_KEY, response)
       IN
       /\ endpoint' = "searchPlaces"
       /\ request' = req
       /\ IF req.method = "OPTIONS"
          THEN /\ response' = Respond(204, NoValue)
               /\ pc' = "done"
               /\ UNCHANGED <<local, gatewayCalls>>
          ELSE IF req.method # "POST"
          THEN /\ response' = Written(afterKey, 405, MethodNotAllowed)
               /\ pc' = "done"
               /\ UNCHANGED <<local, gatewayCalls>>
          ELSE IF req.body.kind = "none"
          THEN /\ response' = WrittenInTryOf(afterKey, 400, TsError("Missing request body"),
                                             sSearchPlacesError)
               /\ pc' = "done"
               /\ UNCHANGED <<local, gatewayCalls>>
          ELSE IF ~HasSearchFields(req.body)
          THEN /\ response' =
                    WrittenInTryOf(afterKey, 400,
                                   TsError("Missing textQuery or currentCoordinates in request body"),
                                   sSearchPlacesError)
               /\ pc' = "done"
               /\ UNCHANGED <<local, gatewayCalls>>
          ELSE /\ response' = afterKey
               /\ local' = [currentCoordinates |-> req.body.currentCoordinates]
               /\ gatewayCalls' =
                    Append(gatewayCalls,
                           PlacesCall(req.body.textQuery, req.body.currentCoordinates))
               /\ pc' = "awaitPlaces"
  /\ UNCHANGED <<fnVars, visionCalls>>

\* A variant that goes on to the distance matrix after a failed place
\* search, with no destinations.
SearchPlacesAfterSearchGoesOn ==
  /\ pc = "awaitPlaces"
  /\ endpoint = "searchPlaces"
  /\ \E res \in PlacesResults :
       LET places == IF res.kind = "ok" /\ "places" \in DOMAIN res.data
                     THEN TruncatePlaces(res.data.places) ELSE << >>
       IN /\ local' = [currentCoordinates |-> local.currentCoordinates,
                       placesResult |-> res, places |-> places]
          /\ gatewayCalls' =
               Append(gatewayCalls,
                      DistanceCall(local.currentCoordinates, Destinations(places)))
          /\ pc' = "awaitDistance"
          /\ UNCHANGED response
  /\ UNCHANGED <<fnVars, endpoint, request, visionCalls>>

\* SearchPlacesService.searchPlaces from the return of the places:searchText
\* call to the await of the distance-matrix call.
SearchPlacesAfterSearch ==
  /\ pc = "awaitPlaces"
  /\ endpoint = "searchPlaces"
  /\ \E res \in PlacesResults :
       IF res.kind = "axiosError"
       THEN /\ response' = WrittenInCatchOf(response, sSearchPlacesError,
                                            UpstreamErrorMessage(sSearchPlacesApiError, res))
            /\ local' = [currentCoordinates |-> local.currentCoordinates,
                         placesResult |-> res]
            /\ pc' = "done"
            /\ UNCHANGED gatewayCalls
       ELSE IF "places" \notin DOMAIN res.data
       THEN \* places.length of undefined: a TypeError, thrown again as it is
            /\ response' = WrittenInCatchOf(response, sSearchPlacesError, sReadingLength)
            /\ local' = [currentCoordinates |-> local.currentCoordinates,
                         placesResult |-> res]
            /\ pc' = "done"
            /\ UNCHANGED gatewayCalls
       ELSE LET places == TruncatePlaces(res.data.places) IN
            /\ local' = [currentCoordinates |-> local.currentCoordinates,
                         placesResult |-> res, places |-> places]
            /\ gatewayCalls' =
                 Append(gatewayCalls,
                        DistanceCall(local.currentCoordinates, Destinations(places)))
            /\ pc' = "awaitDistance"
            /\ UNCHANGED response
  /\ UNCHANGED <<fnVars, endpoint, request, visionCalls>>

\* SearchPlacesService.searchPlaces from the return of the distance-matrix
\* call, and handleSearchPlaces to the end of the request.
SearchPlacesAfterDistance ==
  /\ pc = "awaitDistance"
  /\ endpoint = "searchPlaces"
  /\ \E res \in DistanceResults(Len(local.places)) :
       /\ local' = [currentCoordinates |-> local.currentCoordinates,
                    placesResult |-> local.placesResult, places |-> local.places,
                    distanceResult |-> res]
       /\ pc' = "done"
       /\ IF res.kind = "axiosError"
          THEN response' = WrittenInCatchOf(response, sSearchPlacesError,
                                            UpstreamErrorMessage(sSearchPlacesApiError, res))
          ELSE IF local.places = << >>
          THEN \* map over no places reads nothing of the distance response
               response' = WrittenInTryOf(response, 200, [places |-> << >>],
                                          sSearchPlacesError)
          ELSE IF res.data.rows = << >>
          THEN response' = WrittenInCatchOf(response, sSearchPlacesError, sReadingElements)
          ELSE IF Len(res.data.rows[1].elements) < Len(local.places)
          THEN response' = WrittenInCatchOf(response, sSearchPlacesError, sReadingDistance)
          ELSE response' =
                 WrittenInTryOf(response, 200,
                                [places |-> MergeDistances(local.places,
                                                           res.data.rows[1].elements)],
                                sSearchPlacesError)
  /\ UNCHANGED <<fnVars, endpoint, request, visionCalls, gatewayCalls>>

-----------------------------------------------------------------------------
(* TypeScript: getDirection, handleGetDirection, GetDirectionService *)

sGetDirectionError == "Error getting direction"
sDirectionsApiError == "Directions API error: "

DirectionBodies ==
  {[kind |-> "none"], [kind |-> "object"],
   [kind |-> "object", origin |-> [latitude |-> 13, longitude |-> 100]],
   [kind |-> "object", destination |-> [latitude |-> 13, longitude |-> 100]]}
    \cup [kind : {"object"}, origin : CallerCoordinates,
          destination : {[latitude |-> 13, longitude |-> 100]}]

\* The body has the destination and the origin that handleGetDirection requires.
HasDirectionFields(body) ==
  /\ body.kind = "object"
  /\ "destination" \in DOMAIN body
  /\ "origin" \in DOMAIN body

DirectionRequests == [method : Methods, apiKey : ApiKeys, body : DirectionBodies]

\* What the directions call gives back: a failure or the directions data.
DirectionsResults ==
  AxiosErrors
    \cup {[kind |-> "ok", data |-> [status |-> "OK", routes |-> <<"route">>]],
          [kind |-> "ok", data |-> [status |-> "ZERO_RESULTS", routes |-> << >>]]}

\* The axios.get to the directions service.
DirectionsCall(origin, destination, mode) ==
  [gateway |-> "directions",
   origin |-> <<origin.latitude, origin.longitude>>,
   destination |-> <<destination.latitude, destination.longitude>>,
   mode |-> mode]

\* getDirection (with validateCors, validateApiKey and handleGetDirection)
\* from its entry to the await of the directions call.
GetDirectionBegin ==
  /\ pc = "idle"
  /\ \E req \in DirectionRequests :
       LET API_KEY == "good"
           afterKey == validateApiKey(req.apiKey, API_KEY, response)
       IN
       /\ endpoint' = "getDirection"
       /\ request' = req
       /\ IF req.method = "OPTIONS"
          THEN /\ response' = Respond(204, NoValue)
               /\ pc' = "done"
               /\ UNCHANGED <<local, gatewayCalls>>
          ELSE IF req.method # "POST"
          THEN /\ response' = Written(afterKey, 405, MethodNotAllowed)
               /\ pc' = "done"
               /\ UNCHANGED <<local, gatewayCalls>>
          ELSE IF req.body.kind = "none"
          THEN /\ response' = WrittenInTryOf(afterKey, 400, TsError("Missing request body"),
                                             sGetDirectionError)
               /\ pc' = "done"
               /\ UNCHANGED <<local, gatewayCalls>>
          ELSE IF ~HasDirectionFields(req.body)
          THEN /\ response' =
                    WrittenInTryOf(afterKey, 400,
                                   TsError("Missing destination or origin in request body"),
                                   sGetDirectionError)
               /\ pc' = "done"
               /\ UNCHANGED <<local, gatewayCalls>>
          ELSE /\ response' = afterKey
               /\ local' = [origin |-> req.body.origin, destination |-> req.body.destination]
               /\ gatewayCalls' =
                    Append(gatewayCalls,
                           DirectionsCall(req.body.origin, req.body.destination, "walking"))
               /\ pc' = "awaitDirections"
  /\ UNCHANGED <<fnVars, visionCalls>>

\* GetDirectionService.getDirections from the return of the directions call,
\* and handleGetDirection to the end of the request.
GetDirectionResume ==
  /\ pc = "awaitDirections"
  /\ endpoint = "getDirection"
  /\ \E res \in DirectionsResults :
       /\ local' = [origin |-> local.origin, destination |-> local.destination,
                    directionsResult |-> res]
       /\ pc' = "done"
       /\ IF res.kind = "axiosError"
          THEN response' = WrittenInCatchOf(response, sGetDirectionError,
                                            UpstreamErrorMessage(sDirectionsApiError, res))
          ELSE response' = WrittenInTryOf(response, 200, res.data, sGetDirectionError)
  /\ UNCHANGED <<fnVars, endpoint, request, visionCalls, gatewayCalls>>

-----------------------------------------------------------------------------
(* Pure-function harness *)

SvcIdle ==
  /\ endpoint = "none"
  /\ pc = "idle"
  /\ request = NoValue
  /\ local = NoValue
  /\ visionCalls = 0
  /\ gatewayCalls = << >>
  /\ response = << >>

InitSafeguard ==
  /\ fn = "safeguardSeverity"
  /\ fnArg \in Detections
  /\ fnRet = NoValue
  /\ fnDone = FALSE
  /\ SvcIdle

ApplySafeguardSeverity ==
  /\ fn = "safeguardSeverity"
  /\ ~fnDone
  /\ fnRet' = safeguardSeverity(fnArg)
  /\ fnDone' = TRUE
  /\ UNCHANGED <<fn, fnArg, svcVars>>

NextSafeguard == ApplySafeguardSeverity

SpecSafeguard == InitSafeguard /\ [][NextSafeguard]_vars

\* safeguardSeverity evaluated a second time on the same detection.
ApplySafeguardSeverityAgain ==
  /\ fn = "safeguardSeverity"
  /\ fnDone
  /\ fn' = "safeguardSeverity again"
  /\ fnRet' = [first |-> fnRet, second |-> safeguardSeverity(fnArg)]
  /\ UNCHANGED <<fnArg, fnDone, svcVars>>

\* safeguardSeverity evaluated on its own output: the severity it returned
\* as the declared severity, with the same text.
ApplySafeguardSeverityToOutput ==
  /\ fn = "safeguardSeverity"
  /\ fnDone
  /\ fn' = "safeguardSeverity on its output"
  /\ fnRet' = [first |-> fnRet,
               second |-> safeguardSeverity([Severity |-> fnRet,
                                             SafeDirection |-> fnArg.SafeDirection])]
  /\ UNCHANGED <<fnArg, fnDone, svcVars>>

NextSafeguardTwice ==
  \/ ApplySafeguardSeverity
  \/ ApplySafeguardSeverityAgain
  \/ ApplySafeguardSeverityToOutput

SpecSafeguardTwice == InitSafeguard /\ [][NextSafeguardTwice]_vars

InitProcess ==
  /\ fn = "processHazardAnalysis"
  /\ fnArg \in Texts
  /\ fnRet = NoValue
  /\ fnDone = FALSE
  /\ SvcIdle

ApplyProcessHazardAnalysis ==
  /\ fn = "processHazardAnalysis"
  /\ ~fnDone
  /\ fnRet' = processHazardAnalysis(fnArg)
  /\ fnDone' = TRUE
  /\ UNCHANGED <<fn, fnArg, svcVars>>

NextProcess == ApplyProcessHazardAnalysis

SpecProcess == InitProcess /\ [][NextProcess]_vars

InitImage ==
  /\ fn = "processBase64Image"
  /\ fnArg \in ImageStrings
  /\ fnRet = NoValue
  /\ fnDone = FALSE
  /\ SvcIdle

ApplyProcessBase64Image ==
  /\ fn = "processBase64Image"
  /\ ~fnDone
  /\ fnRet' = processBase64Image(fnArg)
  /\ fnDone' = TRUE
  /\ UNCHANGED <<fn, fnArg, svcVars>>

NextImage == ApplyProcessBase64Image

SpecImage == InitImage /\ [][NextImage]_vars

-----------------------------------------------------------------------------
(* The service: one request to one of the cloud functions *)

Init ==
  /\ fn = "none"
  /\ fnArg = NoValue
  /\ fnRet = NoValue
  /\ fnDone = FALSE
  /\ SvcIdle

Next ==
  \/ GoDetectHazardsBegin
  \/ GoDetectHazardsResume
  \/ TsDetectHazardsBegin
  \/ TsDetectHazardsResume
  \/ SearchPlacesBegin
  \/ SearchPlacesAfterSearch
  \/ SearchPlacesAfterDistance
  \/ GetDirectionBegin
  \/ GetDirectionResume

Spec == Init /\ [][Next]_vars

-----------------------------------------------------------------------------
(* Claims about safeguardSeverity *)

\* s begins with word, letter case ignored, compared character by character.
StartsWithIgnoreCase(s, word) ==
  /\ Len(s) >= Len(word)
  /\ \A i \in 1..Len(word) : ToUpperChar(s[i]) = ToUpperChar(word[i])

\* What inspecting the text prefix alone implies.
PrefixSeverity(text) ==
  IF StartsWithIgnoreCase(text, sSTOP) THEN sHIGH
  ELSE IF StartsWithIgnoreCase(text, sCAUTION) \/ StartsWithIgnoreCase(text, sSLOW)
       THEN sMEDIUM
  ELSE sLOW

\* LOW < MEDIUM (MED) < HIGH
Rank(sev) == IF sev = sHIGH THEN 2 ELSE IF sev \in {sMEDIUM, sMED} THEN 1 ELSE 0

SafeguardApplied == fn = "safeguardSeverity" /\ fnDone

C2_PrefixDecides ==
  (SafeguardApplied /\ fnArg.Severity \in {sEmpty, sLOW})
    => fnRet = PrefixSeverity(fnArg.SafeDirection)

\* A declared LOW with a mixed-case "Stop..." text is raised to HIGH.
C2_Witness ==
  /\ SafeguardApplied
  /\ fnArg.Severity = sLOW
  /\ HasPrefix(fnArg.SafeDirection, <<"S","t","o","p">>)
  /\ Len(fnArg.SafeDirection) > 4
  /\ fnRet = sHIGH

\* C3: the severity safeguardSeverity reports is never below the severity
\* the text prefix alone implies (LOW < MEDIUM < HIGH).
C3_NeverBelowPrefix ==
  SafeguardApplied => Rank(fnRet) >= Rank(PrefixSeverity(fnArg.SafeDirection))

-----------------------------------------------------------------------------
(* Claims about processHazardAnalysis *)

ProcessApplied == fn = "processHazardAnalysis" /\ fnDone

\* The places <<i, k>> at which text ends with severity token k: the token's
\* letters, in any case, start at i and only dots and white space follow.
TokenEnds(text) ==
  { ik \in (1..Len(text)) \X (1..3) :
      LET i == ik[1]
          tok == SeverityTokens[ik[2]]
      IN /\ i + Len(tok) - 1 <= Len(text)
         /\ \A j \in 1..Len(tok) : ToUpperChar(text[i + j - 1]) = tok[j]
         /\ \A j \in (i + Len(tok))..Len(text) : text[j] = "." \/ IsSpace(text[j]) }

\* What is left of text once its trailing token, if any, is taken away.
BeforeToken(text) ==
  IF TokenEnds(text) = {} THEN text
  ELSE SubSeq(text, 1, (CHOOSE ik \in TokenEnds(text) : TRUE)[1] - 1)

OnlySpaces(s) == \A i \in 1..Len(s) : IsSpace(s[i])

InkCount(s, i) == Cardinality({ j \in 1..i : ~IsSpace(s[j]) })

\* The position of the k-th character of s that is not white space.
NthInk(s, k) == CHOOSE i \in 1..Len(s) : ~IsSpace(s[i]) /\ InkCount(s, i) = k

\* t is s with the white space at both ends removed and every run of white
\* space inside replaced by one space character.
IsNormalisationOf(t, s) ==
  LET n == InkCount(s, Len(s)) IN
  /\ InkCount(t, Len(t)) = n
  /\ \A i \in 1..Len(t) : IsSpace(t[i]) =>
        /\ t[i] = " "
        /\ 1 < i /\ i < Len(t)
        /\ ~IsSpace(t[i + 1])
  /\ \A k \in 1..n : t[NthInk(t, k)] = s[NthInk(s, k)]
  /\ \A k \in 1..(n - 1) :
        (NthInk(t, k + 1) > NthInk(t, k) + 1) <=> (NthInk(s, k + 1) > NthInk(s, k) + 1)

\* C8: when nothing but white space is left once the trailing token is taken
\* away, the result is the fixed phrase with severity MED, whatever the token.
C8_EmptyFallback ==
  (ProcessApplied /\ OnlySpaces(BeforeToken(fnArg)))
    => fnRet = [speechText |-> sUnableToAnalyze, severity |-> sMED]

\* A text that is only a HIGH or LOW token (with dots or spaces around it)
\* gave the fixed phrase with MED.
C8_Witness ==
  /\ ProcessApplied
  /\ \E ik \in TokenEnds(fnArg) : ik[2] \in {1, 3}
  /\ Len(fnArg) > 4
  /\ OnlySpaces(BeforeToken(fnArg))
  /\ fnRet = [speechText |-> sUnableToAnalyze, severity |-> sMED]

\* C9: a text that does not end with one of the tokens HIGH, MED, LOW (any
\* case, dots and white space allowed after it) is reported with severity MED.
C9_DefaultMed ==
  (ProcessApplied /\ TokenEnds(fnArg) = {}) => fnRet.severity = sMED

\* "Walk straight, clear path." carries no token and was reported MED with
\* its own text.
C9_Witness ==
  /\ ProcessApplied
  /\ fnArg = sExampleWalkStraight
  /\ fnRet = [speechText |-> sExampleWalkStraight, severity |-> sMED]

\* C10 as stated: for every text that ends with a severity token, the
\* severity is that token in upper case and speechText is the text before
\* the token, trimmed and with its white space collapsed.
C10_TokenGivesSeverity ==
  ProcessApplied =>
    \A ik \in TokenEnds(fnArg) :
      /\ fnRet.severity = SeverityTokens[ik[2]]
      /\ IsNormalisationOf(fnRet.speechText, SubSeq(fnArg, 1, ik[1] - 1))

\* C10 amended: the same, for the texts in which something other than white
\* space precedes the token.
C10_TokenGivesSeverityNonEmpty ==
  ProcessApplied =>
    \A ik \in TokenEnds(fnArg) :
      ~OnlySpaces(SubSeq(fnArg, 1, ik[1] - 1)) =>
        /\ fnRet.severity = SeverityTokens[ik[2]]
        /\ IsNormalisationOf(fnRet.speechText, SubSeq(fnArg, 1, ik[1] - 1))

\* The documented example: "STOP. Construction barriers ahead. HIGH".
C10_Witness ==
  /\ ProcessApplied
  /\ fnArg = sExampleStopHigh
  /\ fnRet = [speechText |-> sExampleStopHighSpeech, severity |-> sHIGH]

-----------------------------------------------------------------------------
(* Claims about the hazard-detection requests *)

\* The request was answered 200 by the given cloud function.
Succeeded(ep) ==
  /\ endpoint = ep
  /\ pc = "done"
  /\ response # << >>
  /\ response[1].status = 200

\* C4: in every successful response of the Go DetectHazards function, a
\* speechText that begins with STOP (any case) does not come with severity
\* LOW, and one that begins with CAUTION or SLOW comes with at least MEDIUM.
C4_GoPrefixNeverLow ==
  Succeeded("goDetectHazards") =>
    LET r == response[1].body IN
    /\ StartsWithIgnoreCase(r.speechText, sSTOP) => r.severity # sLOW
    /\ (StartsWithIgnoreCase(r.speechText, sCAUTION)
          \/ StartsWithIgnoreCase(r.speechText, sSLOW)) => Rank(r.severity) >= 1

\* The model declared LOW with a text starting "Stop" or "Slow" and the
\* response carries the raised severity.
C4_Witness ==
  /\ Succeeded("goDetectHazards")
  /\ local.modelResult.json.shape = "object"
  /\ local.modelResult.json.severity = JsonString(sLOW)
  /\ \/ /\ HasPrefix(response[1].body.speechText, <<"S","t","o","p">>)
        /\ response[1].body.severity = sHIGH
     \/ /\ HasPrefix(response[1].body.speechText, <<"S","l","o","w">>)
        /\ response[1].body.severity = sMEDIUM

\* The trailing severity token of the model text is LOW or there is none.
TokenLowOrAbsent(text) ==
  TokenEnds(text) = {} \/ \E ik \in TokenEnds(text) : ik[2] = 3

\* C5: in every successful response of the TypeScript detectHazards
\* function, a speechText that starts with STOP has severity HIGH when the
\* model text's trailing token is LOW or absent, and one that starts with
\* CAUTION or SLOW does not have severity LOW.
C5_TsEscalates ==
  Succeeded("tsDetectHazards") =>
    LET r == response[1].body IN
    /\ (StartsWithIgnoreCase(r.speechText, sSTOP) /\ TokenLowOrAbsent(local.analysisText))
         => r.severity = sHIGH
    /\ (StartsWithIgnoreCase(r.speechText, sCAUTION)
          \/ StartsWithIgnoreCase(r.speechText, sSLOW)) => r.severity # sLOW

\* The model's text is not JSON, or it has no severity field or no
\* safe_direction field.
LacksRequired(doc) ==
  \/ doc.shape # "object"
  \/ doc.severity.type = "absent"
  \/ doc.safe_direction.type = "absent"

\* C6: in the Go DetectHazards function a model output that is not JSON, or
\* that lacks the severity or the safe_direction field, ends the request with
\* a 5xx error response and never with a success response.
C6_MalformedIsError ==
  ( /\ endpoint = "goDetectHazards"
    /\ pc = "done"
    /\ visionCalls = 1
    /\ local.modelResult.kind = "text"
    /\ LacksRequired(local.modelResult.json) )
  => /\ Len(response) = 1
     /\ response[1].status >= 500
     /\ "error" \in DOMAIN response[1].body

\* C7: every 200 response sent by either hazard-detection function has a
\* speechText that is not empty.
C7_SpeechNonEmpty ==
  \A i \in 1..Len(response) :
    (response[i].sent /\ response[i].status = 200)
      => response[i].body.speechText # sEmpty

-----------------------------------------------------------------------------
(* Claims about image validation *)

\* A POST request with an image string reached a hazard-detection function.
HazardRequestWithImage ==
  /\ endpoint \in {"goDetectHazards", "tsDetectHazards"}
  /\ request.method = "POST"
  /\ HasImage(request.body)

\* The number of bytes the base64 payload of an image string stands for:
\* three for every four data characters after the data-URI comma, if any.
DecodedLength(img) ==
  LET parts == Split(img, ",")
      payload == parts[Len(parts)]
      IsData(c) == c # "=" /\ ~IsLineBreak(c)
  IN (CharCount(SelectSeq(payload, IsData)) * 3) \div 4

\* The response is the error about the size of the image.
IsSizeError(r) ==
  /\ "details" \in DOMAIN r.body
  /\ r.body.details = "Image size exceeds maximum limit"

\* C11: in both hazard-detection functions an image of more than 4 MiB
\* decoded is rejected without a call to the vision model, and an image of
\* exactly 4 MiB is not rejected for its size.
C11_OversizeNeverSent ==
  HazardRequestWithImage =>
    /\ DecodedLength(request.body.image) > 4 * 1024 * 1024 =>
         /\ visionCalls = 0
         /\ pc # "awaitVision"
         /\ pc = "done" => response[Len(response)].status >= 400
    /\ DecodedLength(request.body.image) = 4 * 1024 * 1024 =>
         \A i \in 1..Len(response) : ~IsSizeError(response[i])

\* C12: in both hazard-detection functions an empty image string is rejected
\* with an error before any call to the vision model.
C12_EmptyImageRejected ==
  (HazardRequestWithImage /\ request.body.image = sEmpty) =>
    /\ visionCalls = 0
    /\ pc # "awaitVision"
    /\ pc = "done" =>
         /\ response[Len(response)].status >= 400
         /\ "error" \in DOMAIN response[Len(response)].body

ImageApplied == fn = "processBase64Image" /\ fnDone

\* The positions of character c in s.
PositionsOf(s, c) == { i \in 1..Len(s) : s[i] = c }

\* Standard base64: whole quanta of four characters of the alphabet, the
\* last of which may end with one or two "=" (line breaks do not count).
IsStdBase64(p) ==
  LET c == SelectSeq(p, NotLineBreak)
      m == Len(c)
      k == IF m >= 2 /\ c[m] = "=" /\ c[m - 1] = "=" THEN 2
           ELSE IF m >= 1 /\ c[m] = "=" THEN 1 ELSE 0
  IN /\ CharCount(c) % 4 = 0
     /\ \A i \in 1..(m - k) : IsBase64Char(c[i])

\* meta is "data:image/<fmt>;<encoding>": it starts with the marker and has
\* exactly two segments around one semicolon.
IsWellFormedMeta(meta) ==
  /\ Cardinality(PositionsOf(meta, ";")) = 1
  /\ Len(meta) >= 11
  /\ SubSeq(meta, 1, 11) = sDataImagePrefix
  /\ \A i \in 1..11 : meta[i] # ";"

\* The <fmt> of a well-formed meta.
FormatOf(meta) ==
  SubSeq(meta, 12, (CHOOSE i \in PositionsOf(meta, ";") : TRUE) - 1)

\* C13: processBase64Image on an input "<meta>,<data>": a meta that has not
\* exactly two segments or lacks the "data:image/" marker gives the invalid
\* format error; a well-formed meta with a base64 payload is accepted with
\* the format of the meta. An input without a data-URI prefix that is base64
\* is accepted with format "jpeg". A payload that is not base64 gives the
\* decoding error.
C13_ImageFormats ==
  ImageApplied =>
    LET commas == PositionsOf(fnArg, ",")
        comma == CHOOSE i \in commas : TRUE
        meta == SubSeq(fnArg, 1, comma - 1)
        data == SubSeq(fnArg, comma + 1, Len(fnArg))
    IN IF Cardinality(commas) = 1
       THEN IF ~IsWellFormedMeta(meta)
            THEN fnRet = [err |-> "invalid image format in data URI"]
            ELSE IF IsStdBase64(data)
            THEN fnRet.err = "none" /\ fnRet.format = FormatOf(meta)
            ELSE fnRet = [err |-> "failed to decode base64 data"]
       ELSE IF IsStdBase64(fnArg)
            THEN fnRet.err = "none" /\ fnRet.format = sJpeg
            ELSE fnRet = [err |-> "failed to decode base64 data"]

\* "data:image/png;base64,QUJD" was accepted as three bytes of format png.
C13_Witness ==
  /\ ImageApplied
  /\ fnArg = sDataImagePng \o sSemicolonBase64 \o <<",">> \o <<"Q","U","J","D">>
  /\ fnRet = [err |-> "none", size |-> 3, format |-> sPng]

-----------------------------------------------------------------------------
(* Claims about the place search *)

Min(a, b) == IF a <= b THEN a ELSE b

IsPlacesCall(c) == c.gateway = "places"
IsDistanceCall(c) == c.gateway = "distance"

\* The calls made to the distance matrix for the request in flight.
DistanceCallsMade == SelectSeq(gatewayCalls, IsDistanceCall)

\* The place search of the request in flight has returned data.
SearchReturned ==
  /\ endpoint = "searchPlaces"
  /\ "placesResult" \in DOMAIN local
  /\ local.placesResult.kind = "ok"

\* The candidates the place search returned: none when the data has no list.
Candidates ==
  IF "places" \in DOMAIN local.placesResult.data
  THEN local.placesResult.data.places ELSE << >>

\* The responses of the request in flight that answer 200.
SuccessWrites == { w \in 1..Len(response) : response[w].status = 200 }

\* C14: when the place search returns n >= 1 candidates, exactly one distance
\* request is made, from the caller's coordinates to the first min(n, 4)
\* candidates in search order, and a returned list is those candidates in
\* that order.
C14_FirstFourSent ==
  (SearchReturned /\ Len(Candidates) >= 1) =>
    LET k == Min(Len(Candidates), 4) IN
    /\ Len(DistanceCallsMade) = 1
    /\ DistanceCallsMade[1].origins =
         <<request.body.currentCoordinates.latitude,
           request.body.currentCoordinates.longitude>>
    /\ DistanceCallsMade[1].destinations =
         [i \in 1..k |-> <<Candidates[i].location.latitude,
                           Candidates[i].location.longitude>>]
    /\ \A w \in SuccessWrites :
         /\ Len(response[w].body.places) = k
         /\ \A i \in 1..k :
              /\ response[w].body.places[i].displayName = Candidates[i].displayName
              /\ response[w].body.places[i].location = Candidates[i].location

\* Six candidates were found, four were sent to the distance matrix and the
\* same four were returned.
C14_Witness ==
  /\ SearchReturned
  /\ Len(Candidates) = 6
  /\ pc = "done"
  /\ Len(DistanceCallsMade) = 1
  /\ Len(DistanceCallsMade[1].destinations) = 4
  /\ Len(response) = 1
  /\ response[1].status = 200
  /\ Len(response[1].body.places) = 4
  /\ response[1].body.places[4].displayName = 4

\* C15: when the place search returns no candidate (an empty list or no list
\* at all), the request returns an empty list and the distance matrix is
\* never called.
C15_NoCandidatesNoDistanceCall ==
  (SearchReturned /\ Candidates = << >>) =>
    /\ DistanceCallsMade = << >>
    /\ pc = "done" => \E w \in SuccessWrites : response[w].body.places = << >>

\* C16: in every successful result, candidate i has the distance and the
\* duration of element i of the distance-matrix row (also when candidates
\* share coordinates), and its other fields are those the search returned.
C16_MergedByIndex ==
  (endpoint = "searchPlaces") =>
    \A w \in SuccessWrites :
      \A i \in 1..Len(response[w].body.places) :
        LET place == response[w].body.places[i]
            element == local.distanceResult.data.rows[1].elements[i]
        IN /\ place.distance =
                (IF "distance" \in DOMAIN element THEN element.distance ELSE NoValue)
           /\ place.duration =
                (IF "duration" \in DOMAIN element THEN element.duration ELSE NoValue)
           /\ \A f \in DOMAIN Candidates[i] : place[f] = Candidates[i][f]
           /\ DOMAIN place = DOMAIN Candidates[i] \cup {"distance", "duration"}

\* Two candidates at the same coordinates received each its own element.
C16_Witness ==
  /\ endpoint = "searchPlaces"
  /\ pc = "done"
  /\ Len(response) = 1
  /\ response[1].status = 200
  /\ Len(response[1].body.places) >= 2
  /\ response[1].body.places[1].location = response[1].body.places[2].location
  /\ response[1].body.places[1].distance = [value |-> 100]
  /\ response[1].body.places[2].distance = [value |-> 200]
  /\ response[1].body.places[2].duration = [value |-> 120]

\* The distance matrix answered with a row of elements.
DistanceReturnedRow ==
  /\ endpoint = "searchPlaces"
  /\ pc = "done"
  /\ "distanceResult" \in DOMAIN local
  /\ local.distanceResult.kind = "ok"
  /\ local.distanceResult.data.rows # << >>

\* C17: when the distance matrix returns fewer or more elements than the
\* destinations it was asked about, the request fails with an error and
\* returns no places.
C17_MismatchIsError ==
  ( /\ DistanceReturnedRow
    /\ Len(local.distanceResult.data.rows[1].elements)
         # Len(DistanceCallsMade[1].destinations) )
  => /\ SuccessWrites = {}
     /\ response[Len(response)].status >= 500

HasDistanceAndDuration(place) ==
  place.distance # NoValue /\ place.duration # NoValue

HasNeither(place) ==
  place.distance = NoValue /\ place.duration = NoValue

\* C18: in every successful result either every candidate has a distance and
\* a duration, or no candidate has either.
C18_AllOrNothing ==
  (endpoint = "searchPlaces") =>
    \A w \in SuccessWrites :
      LET places == response[w].body.places IN
      \/ \A i \in 1..Len(places) : HasDistanceAndDuration(places[i])
      \/ \A i \in 1..Len(places) : HasNeither(places[i])

\* The failure of the request's last call, if that call failed.
FailedCalls ==
  { local[f] : f \in { g \in {"placesResult", "distanceResult", "directionsResult"} :
                         g \in DOMAIN local /\ local[g].kind = "axiosError" } }

\* The upstream message of a failure if the upstream supplied one, otherwise
\* the message of the transport error.
MessageOf(e) ==
  IF e.response = NoValue THEN e.message
  ELSE IF "message" \notin DOMAIN e.response.data THEN e.message
  ELSE IF e.response.data.message = "" THEN e.message
  ELSE e.response.data.message

\* C19: when the place search call, the distance call or the directions call
\* fails in transport, the handler answers 500 with details that carry the
\* upstream message, or the transport message when there is none, and no
\* payload is returned; the 500 is the response sent whenever the API key
\* was accepted.
C19_UpstreamFailureIs500 ==
  (endpoint \in {"searchPlaces", "getDirection"} /\ pc = "done") =>
    \A e \in FailedCalls :
      LET last == response[Len(response)] IN
      /\ SuccessWrites = {}
      /\ last.status = 500
      /\ last.body.details[Len(last.body.details)] = MessageOf(e)
      /\ request.apiKey = "good" => (Len(response) = 1 /\ last.sent)

\* The distance call failed with an upstream message and the request was
\* answered 500 with it.
C19_Witness ==
  /\ endpoint = "searchPlaces"
  /\ pc = "done"
  /\ "distanceResult" \in DOMAIN local
  /\ local.distanceResult.kind = "axiosError"
  /\ local.distanceResult.message = "Request failed with status code 403"
  /\ Len(response) = 1
  /\ response[1].sent
  /\ response[1].status = 500
  /\ response[1].body.details = <<sSearchPlacesApiError, "API key not valid">>

\* C20: within one search request each gateway is called at most once, the
\* distance call comes after the place search call and only once that call
\* has returned successfully, and after a failed place search the distance
\* matrix is not called.
C20_InSequenceNoRetry ==
  (endpoint = "searchPlaces") =>
    /\ Len(SelectSeq(gatewayCalls, IsPlacesCall)) <= 1
    /\ Len(DistanceCallsMade) <= 1
    /\ \A i \in 1..Len(gatewayCalls) :
         IsDistanceCall(gatewayCalls[i]) =>
           /\ \E j \in 1..(i - 1) : IsPlacesCall(gatewayCalls[j])
           /\ SearchReturned
    /\ ("placesResult" \in DOMAIN local /\ local.placesResult.kind = "axiosError")
         => DistanceCallsMade = << >>

\* A request that completed: first the place search call, then the distance
\* call, then the answer.
C20_Witness ==
  /\ endpoint = "searchPlaces"
  /\ pc = "done"
  /\ Len(gatewayCalls) = 2
  /\ IsPlacesCall(gatewayCalls[1])
  /\ IsDistanceCall(gatewayCalls[2])
  /\ Len(response) = 1
  /\ response[1].status = 200
  /\ Len(response[1].body.places) = 3

-----------------------------------------------------------------------------
(* Claims about the HTTP responses *)

\* The image string is one a client should not have sent: it is empty, it
\* decodes to more than 4 MiB, its data-URI prefix is malformed, or its
\* payload is not base64.
ClientImageError(img) ==
  LET commas == PositionsOf(img, ",")
      comma == CHOOSE i \in commas : TRUE
  IN \/ img = sEmpty
     \/ DecodedLength(img) > 4 * 1024 * 1024
     \/ IF Cardinality(commas) = 1
        THEN \/ ~IsWellFormedMeta(SubSeq(img, 1, comma - 1))
             \/ ~IsStdBase64(SubSeq(img, comma + 1, Len(img)))
        ELSE ~IsStdBase64(img)

\* C21: in both hazard-detection functions a request whose image is empty,
\* over 4 MiB, of a malformed data-URI or not base64 is answered with a 4xx
\* status, never with a 5xx (nor with any other).
C21_ImageErrorsAre4xx ==
  (HazardRequestWithImage /\ pc = "done" /\ ClientImageError(request.body.image))
    => (response[1].status >= 400 /\ response[1].status <= 499)

\* The three TypeScript HTTP functions.
TsEndpoints == {"searchPlaces", "tsDetectHazards", "getDirection"}

\* C22: every failure response of searchPlaces, detectHazards and
\* getDirection (401, 405, 400, 500) is an object with an error field and a
\* timestamp field.
C22_FailuresHaveTimestamp ==
  (endpoint \in TsEndpoints) =>
    \A w \in 1..Len(response) :
      (response[w].sent /\ response[w].status >= 400) =>
        /\ "error" \in DOMAIN response[w].body
        /\ "timestamp" \in DOMAIN response[w].body

\* C23: the severity of every hazard-detection response, of the Go function
\* and of the TypeScript function, is one of HIGH, MED, LOW.
C23_SeverityEnum ==
  (endpoint \in {"goDetectHazards", "tsDetectHazards"}) =>
    \A w \in 1..Len(response) :
      response[w].status = 200 => response[w].body.severity \in {sHIGH, sMED, sLOW}

\* C23 amended: the severity of every response of the Go function is one of
\* HIGH, MEDIUM, LOW, and the severity of every response of the TypeScript
\* function is one of HIGH, MED, LOW.
C23_SeverityVocabulary ==
  \A w \in 1..Len(response) :
    response[w].status = 200 =>
      /\ endpoint = "goDetectHazards" =>
           response[w].body.severity \in {sHIGH, sMEDIUM, sLOW}
      /\ endpoint = "tsDetectHazards" =>
           response[w].body.severity \in {sHIGH, sMED, sLOW}

\* The model declared nothing, the text starts with CAUTION, and the Go
\* function answered MEDIUM.
C23_Witness ==
  /\ Succeeded("goDetectHazards")
  /\ local.modelResult.json.shape = "object"
  /\ local.modelResult.json.severity = JsonAbsent
  /\ HasPrefix(response[1].body.speechText, sCAUTION)
  /\ response[1].body.severity = sMEDIUM

\* The text ends with a severity word of its own: HIGH, MED, MEDIUM or LOW
\* (any case) at the start of the text or after white space or a dot, with
\* only dots and white space after it.
EndsWithStandaloneToken(text) ==
  \E tok \in {sHIGH, sMED, sMEDIUM, sLOW} :
    \E i \in 1..Len(text) :
      /\ i + Len(tok) - 1 <= Len(text)
      /\ \A j \in 1..Len(tok) : ToUpperChar(text[i + j - 1]) = tok[j]
      /\ \A j \in (i + Len(tok))..Len(text) : text[j] = "." \/ IsSpace(text[j])
      /\ i > 1 => (text[i - 1] = "." \/ IsSpace(text[i - 1]))

\* C24: no successful response of the Go DetectHazards function has a
\* speechText that ends with a standalone HIGH, MED, MEDIUM or LOW.
C24_GoSpeechStripped ==
  Succeeded("goDetectHazards") => ~EndsWithStandaloneToken(response[1].body.speechText)

-----------------------------------------------------------------------------
(* Claims about safeguardSeverity evaluated twice *)

\* C25: safeguardSeverity evaluated a second time on the same detection
\* returns what it returned the first time, and evaluated with its own
\* output as the declared severity and the same text it returns that output.
C25_Idempotent ==
  (fn \in {"safeguardSeverity again", "safeguardSeverity on its output"})
    => fnRet.second = fnRet.first

\* A declared LOW with a STOP text gave HIGH, and HIGH again when HIGH was
\* handed back as the declared severity.
C25_Witness ==
  /\ fn = "safeguardSeverity on its output"
  /\ fnArg.Severity = sLOW
  /\ HasPrefix(fnArg.SafeDirection, sSTOP)
  /\ fnRet = [first |-> sHIGH, second |-> sHIGH]

-----------------------------------------------------------------------------
(* Claims about the gate in front of the handlers *)

NoExternalCall == gatewayCalls = << >> /\ visionCalls = 0

\* C26: in searchPlaces, detectHazards and getDirection an external call is
\* made only for a POST with the correct x-api-key; a missing or wrong key is answered with 401 alone and no call; a method
\* other than POST and OPTIONS is answered with 405 alone and no call.
C26_Gatekeeping ==
  (endpoint \in TsEndpoints) =>
    /\ ~NoExternalCall => (request.method = "POST" /\ request.apiKey = "good")
    /\ (pc = "done" /\ request.method # "OPTIONS" /\ request.apiKey # "good")
         => (Len(response) = 1 /\ response[1].status = 401 /\ NoExternalCall)
    /\ (pc = "done" /\ request.method \notin {"POST", "OPTIONS"} /\ request.apiKey = "good")
         => (Len(response) = 1 /\ response[1].status = 405 /\ NoExternalCall)

\* C27: every request to searchPlaces, detectHazards and getDirection ends
\* with exactly one response: nothing is written
\* after a response has been sent, and no path ends without a response.
C27_ExactlyOneResponse ==
  (endpoint \in TsEndpoints) =>
    /\ Len(response) <= 1
    /\ pc = "done" => (Len(response) = 1 /\ response[1].sent)

-----------------------------------------------------------------------------
(* Claims about required-field validation *)

\* The request reached a handler (a POST) with a body that lacks what the
\* handler requires: no body at all, or a field that is absent or empty.
MissingRequiredField ==
  /\ endpoint \in TsEndpoints
  /\ request.method = "POST"
  /\ \/ request.body.kind = "none"
     \/ endpoint = "searchPlaces"
          /\ \/ "textQuery" \notin DOMAIN request.body
             \/ request.body.textQuery = ""
             \/ "currentCoordinates" \notin DOMAIN request.body
     \/ endpoint = "getDirection"
          /\ \/ "origin" \notin DOMAIN request.body
             \/ "destination" \notin DOMAIN request.body
     \/ endpoint = "tsDetectHazards"
          /\ \/ "image" \notin DOMAIN request.body
             \/ request.body.image = sEmpty

\* C28: handleSearchPlaces, handleGetDirection and handleDetectHazards check
\* the required fields before any external call: for a body that lacks one
\* no call to the places, distance, directions or vision gateway is ever
\* made, and the handler answers 400, which is the response the client
\* receives whenever the key check had not answered before it.
C28_ValidationBeforeCalls ==
  MissingRequiredField =>
    /\ NoExternalCall
    /\ pc = "done"
    /\ \E w \in 1..Len(response) :
         /\ response[w].status = 400
         /\ \A v \in 1..(w - 1) : response[v].status = 401
         /\ request.apiKey = "good" => (w = 1 /\ response[w].sent /\ Len(response) = 1)

\* A search with an empty textQuery was answered 400 and nothing was called.
C28_Witness ==
  /\ endpoint = "searchPlaces"
  /\ request.method = "POST"
  /\ request.apiKey = "good"
  /\ request.body.kind = "object"
  /\ "textQuery" \in DOMAIN request.body
  /\ request.body.textQuery = ""
  /\ Len(response) = 1
  /\ response[1].status = 400
  /\ response[1].sent
  /\ NoExternalCall

-----------------------------------------------------------------------------
(* Claims about words that end in the letters of a severity token *)

IsLetter(c) == \E i \in 1..26 : LowerLetters[i] = c \/ UpperLetters[i] = c

\* C29: when the letters HIGH, MED or LOW at the end of the text are the end
\* of a longer word (a letter stands right before them), processHazardAnalysis
\* reports MED and speechText keeps the whole text, trimmed and with its
\* white space collapsed.
C29_WordEndIsNoToken ==
  ProcessApplied =>
    \A ik \in TokenEnds(fnArg) :
      (ik[1] > 1 /\ IsLetter(fnArg[ik[1] - 1])) =>
        /\ fnRet.severity = sMED
        /\ IsNormalisationOf(fnRet.speechText, fnArg)

====
